---- MODULE Spec2Model ----
(***************************************************************************)
(* A model of 03_query_ai/ai_reporter.py: a straight-line script that      *)
(* loads two credentials, queries the FDA device recall API, aggregates    *)
(* the records with pandas, formats a text summary, posts it to the OpenAI *)
(* chat completions endpoint and saves the reply as 03_query_ai/report.md. *)
(*                                                                         *)
(* Python strings are sequences of code points.  A cell of a data frame is *)
(* a tagged value: a string, NaN (the key was missing from that record) or *)
(* None (a JSON null).  A record of the FDA response is a function from    *)
(* the field names it carries to cells.                                    *)
(***************************************************************************)
EXTENDS Integers, Sequences, FiniteSets, TLC

VARIABLES
    pc,                \* the section of the script about to run
    error,             \* <<exception type, detail>> once the script has raised
    environ,           \* the process environment after load_dotenv()
    FDA_API_KEY,       \* line 26
    OPENAI_API_KEY,    \* line 27
    response,          \* line 53: the FDA response
    recalls,           \* line 65: the data frame of the results
    recalls_clean,     \* line 86 (and line 99, which adds the month column)
    root_cause_counts, \* line 91
    monthly_counts,    \* line 101
    firm_counts,       \* line 108
    status_counts,     \* line 116
    data_summary,      \* line 126
    ai_response,       \* line 209
    report,            \* line 220
    file,              \* the contents of 03_query_ai/report.md
    writes,            \* how many times report.md has been written in this run
    calls              \* the outbound network calls made so far, in order

vars == <<pc, error, environ, FDA_API_KEY, OPENAI_API_KEY, response, recalls,
          recalls_clean, root_cause_counts, monthly_counts, firm_counts,
          status_counts, data_summary, ai_response, report, file, writes, calls>>

(***************************************************************************)
(* Program constants.                                                      *)
(***************************************************************************)
HTTP_OK == 200
MonthLen == 7
TopN == 10
SampleN == 5
TruncLen == 200

(***************************************************************************)
(* Bounds of the model.                                                    *)
(***************************************************************************)
\* records per set in the schema family (a field dropped from every record)
MaxSchemaRecords == 2
\* records per set in the mixed family (any sequence of catalogue records)
MaxRecords == 3
\* distinct keys beyond TopN in the cardinality family
MaxExtraKeys == 2
\* records beyond SampleN in the description family
MaxExtraRecords == 1
\* characters beyond TruncLen in the longest description
MaxOver == 2

(***************************************************************************)
(* Cells and Python strings.                                               *)
(***************************************************************************)
Str(s) == [t |-> "str", s |-> s]
NaN == [t |-> "nan", s |-> <<>>]
None == [t |-> "none", s |-> <<>>]

IsStr(cell) == cell.t = "str"

Min(a, b) == IF a <= b THEN a ELSE b

\* Python's s[:n]
Slice(s, n) == SubSeq(s, 1, Min(n, Len(s)))

\* Python's str < str: lexicographic by code point
LexLess(a, b) ==
    \E i \in 1..(Min(Len(a), Len(b)) + 1) :
        /\ \A j \in 1..(i - 1) : a[j] = b[j]
        /\ \/ i > Len(a) /\ i <= Len(b)
           \/ i <= Len(a) /\ i <= Len(b) /\ a[i] < b[i]

\* str(x) as an f-string renders a cell
PyStr(cell) ==
    CASE cell.t = "str" -> cell.s
      [] cell.t = "nan" -> <<110, 97, 110>>
      [] OTHER -> <<78, 111, 110, 101>>

\* a variant of Truthy that tests "is not None" and so accepts the empty string
Truthy_NotNone(cell) == cell.t = "str"

\* bool(x) for a value os.getenv can return
Truthy(cell) == cell.t = "str" /\ Len(cell.s) > 0

(***************************************************************************)
(* Data frames: a set of column names and a sequence of rows, each row a   *)
(* function from the column names to cells.                                *)
(***************************************************************************)
cols_of_interest ==
    {"recall_number", "event_date_initiated", "product_code",
     "root_cause_description", "recalling_firm", "recall_status",
     "product_description"}

RECURSIVE AllKeys(_)
AllKeys(results) ==
    IF results = <<>> THEN {}
    ELSE (DOMAIN Head(results)) \cup AllKeys(Tail(results))

\* pd.DataFrame(list of dicts): the columns are the union of the keys, and a
\* record without a key holds NaN there
DataFrame(results) ==
    LET cols == AllKeys(results)
    IN [columns |-> cols,
        rows |-> [i \in 1..Len(results) |->
                    [c \in cols |-> IF c \in DOMAIN results[i]
                                    THEN results[i][c] ELSE NaN]]]

\* df[list of columns].copy()
Project(df, cols) ==
    [columns |-> cols,
     rows |-> [i \in 1..Len(df.rows) |-> [c \in cols |-> df.rows[i][c]]]]

\* df[name] = column.str[:7]
Month(cell) == IF IsStr(cell) THEN Str(Slice(cell.s, MonthLen)) ELSE NaN

WithMonth(df) ==
    [columns |-> df.columns \cup {"month"},
     rows |-> [i \in 1..Len(df.rows) |->
                 [c \in df.columns \cup {"month"} |->
                     IF c = "month"
                     THEN Month(df.rows[i]["event_date_initiated"])
                     ELSE df.rows[i][c]]]]

(***************************************************************************)
(* groupby(col).size().reset_index(name="count"): one row per distinct     *)
(* non-NA value of the column (dropna=True), in ascending key order        *)
(* (sort=True), with the number of rows holding it.                        *)
(***************************************************************************)
GroupKeys(df, col) ==
    {df.rows[i][col].s : i \in {j \in 1..Len(df.rows) : IsStr(df.rows[j][col])}}

RECURSIVE SortKeys(_)
SortKeys(S) ==
    IF S = {} THEN <<>>
    ELSE LET m == CHOOSE x \in S : \A y \in S \ {x} : LexLess(x, y)
         IN <<m>> \o SortKeys(S \ {m})

\* a variant of Size that is count() for size(): it counts the rows of the
\* group that have a value in another column
Size_Count(df, col, k) ==
    Cardinality({i \in 1..Len(df.rows) :
                    /\ df.rows[i][col] = Str(k)
                    /\ "product_description" \in df.columns =>
                          IsStr(df.rows[i]["product_description"])})

Size(df, col, k) ==
    Cardinality({i \in 1..Len(df.rows) : df.rows[i][col] = Str(k)})

GroupSize(df, col) ==
    LET keys == SortKeys(GroupKeys(df, col))
    IN [i \in 1..Len(keys) |-> [key |-> keys[i], count |-> Size(df, col, keys[i])]]

(***************************************************************************)
(* sort_values("count", ascending=False).  The default kind is quicksort,  *)
(* which is not stable: rows of equal count can come out in any order.     *)
(* SortValuesDesc is the set of the orders the sort may produce.           *)
(***************************************************************************)
RECURSIVE Perms(_)
Perms(S) ==
    IF S = {} THEN {<<>>}
    ELSE UNION {{<<x>> \o p : p \in Perms(S \ {x})} : x \in S}

Range(s) == {s[i] : i \in 1..Len(s)}

RECURSIVE SortLevels(_, _)
SortLevels(rows, descending) ==
    IF rows = {} THEN {<<>>}
    ELSE LET first == IF descending
                      THEN {r \in rows : \A q \in rows : q.count <= r.count}
                      ELSE {r \in rows : \A q \in rows : q.count >= r.count}
         IN UNION {{p \o rest : rest \in SortLevels(rows \ first, descending)}
                   : p \in Perms(first)}

\* a variant of SortValuesDesc without ascending=False
SortValuesAsc(tbl) == SortLevels(Range(tbl), FALSE)

SortValuesDesc(tbl) == SortLevels(Range(tbl), TRUE)

\* sort_values("month"): ascending by key; the keys of a groupby are distinct
SortValuesKey(tbl) ==
    LET keys == SortKeys({tbl[i].key : i \in 1..Len(tbl)})
    IN [i \in 1..Len(keys) |-> CHOOSE r \in Range(tbl) : r.key = keys[i]]

\* a variant of HeadN that keeps the last n rows (tail for head)
HeadN_Tail(tbl, n) == SubSeq(tbl, Len(tbl) - Min(n, Len(tbl)) + 1, Len(tbl))

\* df.head(n)
HeadN(tbl, n) == SubSeq(tbl, 1, Min(n, Len(tbl)))

\* the columns section 2.2 reads, in the order it reads them
AggregateCols ==
    <<"root_cause_description", "event_date_initiated", "recalling_firm",
      "recall_status">>

\* the first column section 2.2 looks up that the frame does not have
FirstMissing(df) ==
    LET miss == {i \in 1..Len(AggregateCols) : AggregateCols[i] \notin df.columns}
    IN AggregateCols[CHOOSE i \in miss : \A j \in miss : i <= j]

(***************************************************************************)
(* Section 2.3: the text summary.                                          *)
(***************************************************************************)
\* DataFrame.to_string(index=False): a header line and a line per row, or
\* the "Empty DataFrame" notice when the frame has no rows
to_string(tbl, col) ==
    IF tbl = <<>>
    THEN <<[text |-> "Empty DataFrame", col |-> col, key |-> <<>>, count |-> 0]>>
    ELSE <<[text |-> "header", col |-> col, key |-> <<>>, count |-> 0]>>
         \o [i \in 1..Len(tbl) |->
                [text |-> "row", col |-> col, key |-> tbl[i].key,
                 count |-> tbl[i].count]]

NA_TEXT == <<78, 47, 65>>
ELLIPSIS == <<46, 46, 46>>
BULLET == <<45, 32>>
NEWLINE == <<10>>

\* row.get("product_description", "N/A"): the default is used only when the
\* row has no such label
RowGet(df, i) ==
    IF "product_description" \in df.columns
    THEN df.rows[i]["product_description"]
    ELSE Str(NA_TEXT)

\* a variant of Truncate that also cuts a description of exactly TruncLen
Truncate_Inclusive(desc) ==
    IF IsStr(desc) /\ Len(desc.s) >= TruncLen
    THEN Str(Slice(desc.s, TruncLen) \o ELLIPSIS)
    ELSE desc

\* lines 150-151
Truncate(desc) ==
    IF IsStr(desc) /\ Len(desc.s) > TruncLen
    THEN Str(Slice(desc.s, TruncLen) \o ELLIPSIS)
    ELSE desc

\* line 152
SampleLine(df, i) == BULLET \o PyStr(Truncate(RowGet(df, i))) \o NEWLINE

\* lines 147-152: recalls_clean.head(5).iterrows()
SampleLines(df) ==
    [i \in 1..Min(SampleN, Len(df.rows)) |-> SampleLine(df, i)]

Summary(df, rc, mo, fi, st) ==
    [total |-> Len(df.rows),
     root_causes |-> to_string(rc, "root_cause_description"),
     monthly |-> to_string(mo, "month"),
     firms |-> to_string(fi, "recalling_firm"),
     statuses |-> to_string(st, "recall_status"),
     samples |-> SampleLines(df)]

(***************************************************************************)
(* The record sets the FDA endpoint may answer with.  Four families:       *)
(*   SchemaSets  - up to MaxSchemaRecords copies of one record with a set  *)
(*                 of fields missing from every record (and the empty set) *)
(*   MixedSets   - every sequence of up to MaxRecords catalogue records    *)
(*   TopSets     - up to TopN + MaxExtraKeys distinct root causes or firms *)
(*   SampleSets  - up to SampleN + MaxExtraRecords records whose           *)
(*                 descriptions are short, long, null or missing           *)
(***************************************************************************)
Design == <<68, 101, 115, 105, 103, 110>>
Software == <<83, 111, 102, 116, 119, 97, 114, 101>>
Acme == <<65, 99, 109, 101>>
Beta == <<66, 101, 116, 97>>
Ongoing == <<79, 110, 103, 111, 105, 110, 103>>
Terminated == <<84, 101, 114, 109, 105, 110, 97, 116, 101, 100>>
\* "2024-01-15", "2024-01-30", "2024-02-01" and the malformed "2024"
Jan15 == <<50, 48, 50, 52, 45, 48, 49, 45, 49, 53>>
Jan30 == <<50, 48, 50, 52, 45, 48, 49, 45, 51, 48>>
Feb01 == <<50, 48, 50, 52, 45, 48, 50, 45, 48, 49>>
Year == <<50, 48, 50, 52>>

Base ==
    [recall_number |-> Str(<<90, 45, 49>>),
     event_date_initiated |-> Str(Jan15),
     product_code |-> Str(<<70, 82, 78>>),
     root_cause_description |-> Str(Design),
     recalling_firm |-> Str(Acme),
     recall_status |-> Str(Ongoing),
     product_description |-> Str(<<80, 117, 109, 112>>),
     res_event_number |-> Str(<<57, 49>>)]

Drop(r, D) == [k \in (DOMAIN r) \ D |-> r[k]]

Rec(rc, firm, status, date) ==
    [Base EXCEPT !["root_cause_description"] = rc,
                 !["recalling_firm"] = firm,
                 !["recall_status"] = status,
                 !["event_date_initiated"] = date]

DropFields ==
    {"root_cause_description", "event_date_initiated", "recalling_firm",
     "recall_status", "product_description"}

SchemaSets ==
    {[i \in 1..n |-> Drop(Base, D)] : n \in 0..MaxSchemaRecords, D \in SUBSET DropFields}

Catalogue ==
    {Rec(Str(Design), Str(Acme), Str(Ongoing), Str(Jan15)),
     Rec(Str(Software), Str(Acme), Str(Terminated), Str(Feb01)),
     Rec(Str(Design), Str(Beta), Str(Terminated), Str(Jan30)),
     Rec(Str(Software), Str(Beta), Str(Ongoing), Str(Year)),
     Drop(Rec(Str(Design), Str(Beta), Str(Ongoing), Str(Feb01)),
          {"root_cause_description", "product_description"}),
     [Rec(None, Str(Acme), Str(Terminated), Str(Jan15))
         EXCEPT !["product_description"] = None],
     Drop(Rec(Str(Software), Str(Acme), Str(Ongoing), Str(Jan15)),
          {"recall_status", "event_date_initiated"})}

MixedSets == UNION {[1..n -> Catalogue] : n \in 1..MaxRecords}

\* the k-th key of the cardinality family, "KA", "KB", ...
Key(k) == <<75, 64 + k>>

\* keys come in pairs of equal count: 1, 1, 2, 2, 3, 3, ...
KeyCount(k) == (k + 1) \div 2

RECURSIVE Blocks(_, _)
Blocks(field, ks) ==
    IF ks = <<>> THEN <<>>
    ELSE [j \in 1..KeyCount(Head(ks)) |-> [Base EXCEPT ![field] = Str(Key(Head(ks)))]]
         \o Blocks(field, Tail(ks))

TopSets ==
    {Blocks(field, [i \in 1..n |-> IF up THEN i ELSE n + 1 - i]) :
        field \in {"root_cause_description", "recalling_firm"},
        n \in (TopN - 1)..(TopN + MaxExtraKeys),
        up \in BOOLEAN}

MkDesc(L) == [i \in 1..L |-> 97 + (i % 26)]

Absent == [t |-> "absent", s |-> <<>>]

DescChoices ==
    {Str(MkDesc(L)) : L \in {1, TruncLen, TruncLen + 1, TruncLen + MaxOver}}
    \cup {None, Absent}

WithDesc(c) ==
    IF c = Absent THEN Drop(Base, {"product_description"})
    ELSE [Base EXCEPT !["product_description"] = c]

SampleSets ==
    UNION {{[i \in 1..n |-> WithDesc(IF i = p THEN b ELSE a)] :
                p \in 1..n, a \in DescChoices, b \in DescChoices}
           : n \in 1..(SampleN + MaxExtraRecords)}

RecordSets == SchemaSets \cup MixedSets \cup TopSets \cup SampleSets

(***************************************************************************)
(* The script.                                                             *)
(***************************************************************************)
NoFrame == [columns |-> {}, rows |-> <<>>]
NoResponse == [status_code |-> 0, results |-> <<>>]
NoReply == [status_code |-> 0, shape |-> "none", content |-> None]
NoError == <<"", "">>

EnvValues == {None, Str(<<>>), Str(<<107>>)}
FdaStatuses == {HTTP_OK, 404, 500}
AiStatuses == {HTTP_OK, 401, 500}
\* the shapes of a chat completion body: complete, without "choices", with an
\* empty "choices" list, with a message that has no "content"
BodyShapes == {"complete", "no_choices", "empty_choices", "no_content"}
ReportText == Str(<<35, 32, 82>>)

Init ==
    /\ pc = "load_env"
    /\ error = NoError
    /\ environ \in [{"API_KEY", "OPENAI_API_KEY"} -> EnvValues]
    /\ FDA_API_KEY = None
    /\ OPENAI_API_KEY = None
    /\ response = NoResponse
    /\ recalls = NoFrame
    /\ recalls_clean = NoFrame
    /\ root_cause_counts = <<>>
    /\ monthly_counts = <<>>
    /\ firm_counts = <<>>
    /\ status_counts = <<>>
    /\ data_summary = None
    /\ ai_response = NoReply
    /\ report = None
    /\ file = None
    /\ writes = 0
    /\ calls = <<>>

Raise(type, detail) ==
    /\ pc' = "aborted"
    /\ error' = <<type, detail>>

\* lines 23-33: read the two keys, raise ValueError when one is falsy
LoadEnvironment ==
    /\ pc = "load_env"
    /\ FDA_API_KEY' = environ["API_KEY"]
    /\ OPENAI_API_KEY' = environ["OPENAI_API_KEY"]
    /\ IF ~Truthy(environ["API_KEY"]) THEN Raise("ValueError", "API_KEY")
       ELSE IF ~Truthy(environ["OPENAI_API_KEY"])
            THEN Raise("ValueError", "OPENAI_API_KEY")
            ELSE pc' = "query" /\ error' = error
    /\ UNCHANGED <<environ, response, recalls, recalls_clean, root_cause_counts,
                   monthly_counts, firm_counts, status_counts, data_summary,
                   ai_response, report, file, writes, calls>>

\* a variant of QueryFDA that asks again after a status other than 200
QueryFDA_Retry ==
    /\ pc = "query"
    /\ calls' = Append(calls, "GET")
    /\ \/ /\ Raise("ConnectionError", "GET")
          /\ response' = response
       \/ \E st \in FdaStatuses \ {HTTP_OK} :
            /\ response' = [status_code |-> st, results |-> <<>>]
            /\ pc' = "query"
            /\ error' = error
       \/ \E rs \in RecordSets :
            /\ response' = [status_code |-> HTTP_OK, results |-> rs]
            /\ pc' = "parse"
            /\ error' = error
    /\ UNCHANGED <<environ, FDA_API_KEY, OPENAI_API_KEY, recalls, recalls_clean,
                   root_cause_counts, monthly_counts, firm_counts, status_counts,
                   data_summary, ai_response, report, file, writes>>

\* lines 53-59: one GET; a status other than 200 raises
QueryFDA ==
    /\ pc = "query"
    /\ calls' = Append(calls, "GET")
    /\ \/ /\ Raise("ConnectionError", "GET")
          /\ response' = response
       \/ \E st \in FdaStatuses \ {HTTP_OK} :
            /\ response' = [status_code |-> st, results |-> <<>>]
            /\ Raise("Exception", "FDA API request failed")
       \/ \E rs \in RecordSets :
            /\ response' = [status_code |-> HTTP_OK, results |-> rs]
            /\ pc' = "parse"
            /\ error' = error
    /\ UNCHANGED <<environ, FDA_API_KEY, OPENAI_API_KEY, recalls, recalls_clean,
                   root_cause_counts, monthly_counts, firm_counts, status_counts,
                   data_summary, ai_response, report, file, writes>>

\* lines 64-66
ParseResponse ==
    /\ pc = "parse"
    /\ recalls' = DataFrame(response.results)
    /\ pc' = "clean"
    /\ UNCHANGED <<error, environ, FDA_API_KEY, OPENAI_API_KEY, response,
                   recalls_clean, root_cause_counts, monthly_counts, firm_counts,
                   status_counts, data_summary, ai_response, report, file, writes,
                   calls>>

\* lines 74-86
ExistingCols(df) == {c \in cols_of_interest : c \in df.columns}

CleanColumns ==
    /\ pc = "clean"
    /\ recalls_clean' = Project(recalls, ExistingCols(recalls))
    /\ pc' = "aggregate"
    /\ UNCHANGED <<error, environ, FDA_API_KEY, OPENAI_API_KEY, response, recalls,
                   root_cause_counts, monthly_counts, firm_counts, status_counts,
                   data_summary, ai_response, report, file, writes, calls>>

\* lines 91-120: the four tables; a column the frame lacks raises KeyError
Aggregate ==
    /\ pc = "aggregate"
    /\ IF \A i \in 1..Len(AggregateCols) : AggregateCols[i] \in recalls_clean.columns
       THEN LET df == WithMonth(recalls_clean)
            IN /\ recalls_clean' = df
               /\ \E rc \in SortValuesDesc(GroupSize(df, "root_cause_description")) :
                    root_cause_counts' = HeadN(rc, TopN)
               /\ monthly_counts' = SortValuesKey(GroupSize(df, "month"))
               /\ \E fi \in SortValuesDesc(GroupSize(df, "recalling_firm")) :
                    firm_counts' = HeadN(fi, TopN)
               /\ status_counts' \in SortValuesDesc(GroupSize(df, "recall_status"))
               /\ pc' = "format"
               /\ error' = error
       ELSE /\ Raise("KeyError", FirstMissing(recalls_clean))
            /\ UNCHANGED <<recalls_clean, root_cause_counts, monthly_counts,
                           firm_counts, status_counts>>
    /\ UNCHANGED <<environ, FDA_API_KEY, OPENAI_API_KEY, response, recalls,
                   data_summary, ai_response, report, file, writes, calls>>

\* lines 126-152
FormatSummary ==
    /\ pc = "format"
    /\ data_summary' = Summary(recalls_clean, root_cause_counts, monthly_counts,
                               firm_counts, status_counts)
    /\ pc' = "send"
    /\ UNCHANGED <<error, environ, FDA_API_KEY, OPENAI_API_KEY, response, recalls,
                   recalls_clean, root_cause_counts, monthly_counts, firm_counts,
                   status_counts, ai_response, report, file, writes, calls>>

\* lines 209-212: one POST; raise_for_status() raises on 4xx and 5xx
SendRequest ==
    /\ pc = "send"
    /\ calls' = Append(calls, "POST")
    /\ \/ /\ Raise("ConnectionError", "POST")
          /\ ai_response' = ai_response
       \/ \E st \in AiStatuses \ {HTTP_OK} :
            /\ ai_response' = [status_code |-> st, shape |-> "error", content |-> None]
            /\ Raise("HTTPError", "raise_for_status")
       \/ \E shape \in BodyShapes :
            /\ ai_response' = [status_code |-> HTTP_OK, shape |-> shape,
                               content |-> IF shape = "complete" THEN ReportText
                                           ELSE None]
            /\ pc' = "parse_report"
            /\ error' = error
    /\ UNCHANGED <<environ, FDA_API_KEY, OPENAI_API_KEY, response, recalls,
                   recalls_clean, root_cause_counts, monthly_counts, firm_counts,
                   status_counts, data_summary, report, file, writes>>

\* a variant of ParseReport that reads the payload with defaults and never raises
ParseReport_Unchecked ==
    /\ pc = "parse_report"
    /\ report' = ai_response.content
    /\ pc' = "save"
    /\ error' = error
    /\ UNCHANGED <<environ, FDA_API_KEY, OPENAI_API_KEY, response, recalls,
                   recalls_clean, root_cause_counts, monthly_counts, firm_counts,
                   status_counts, data_summary, ai_response, file, writes, calls>>

\* lines 217-220: result["choices"][0]["message"]["content"]
ParseReport ==
    /\ pc = "parse_report"
    /\ CASE ai_response.shape = "complete" ->
              /\ report' = ai_response.content
              /\ pc' = "save"
              /\ error' = error
         [] ai_response.shape = "no_choices" ->
              Raise("KeyError", "choices") /\ report' = report
         [] ai_response.shape = "empty_choices" ->
              Raise("IndexError", "choices[0]") /\ report' = report
         [] OTHER ->
              Raise("KeyError", "content") /\ report' = report
    /\ UNCHANGED <<environ, FDA_API_KEY, OPENAI_API_KEY, response, recalls,
                   recalls_clean, root_cause_counts, monthly_counts, firm_counts,
                   status_counts, data_summary, ai_response, file, writes, calls>>

\* lines 233-234: open(..., "w") and write; open() raises OSError when the
\* directory is missing or not writable
SaveReport ==
    /\ pc = "save"
    /\ \/ /\ file' = report
          /\ writes' = writes + 1
          /\ pc' = "done"
          /\ error' = error
       \/ /\ Raise("OSError", "03_query_ai/report.md")
          /\ UNCHANGED <<file, writes>>
    /\ UNCHANGED <<environ, FDA_API_KEY, OPENAI_API_KEY, response, recalls,
                   recalls_clean, root_cause_counts, monthly_counts, firm_counts,
                   status_counts, data_summary, ai_response, report, calls>>

Next ==
    \/ LoadEnvironment
    \/ QueryFDA
    \/ ParseResponse
    \/ CleanColumns
    \/ Aggregate
    \/ FormatSummary
    \/ SendRequest
    \/ ParseReport
    \/ SaveReport

Spec == Init /\ [][Next]_vars

(***************************************************************************)
(* Vocabulary of the properties, stated over the records of the response   *)
(* (the RecordSet) rather than over the frames the script derives.         *)
(***************************************************************************)
RecordSet == response.results

\* the four tables exist: section 2.2 has run to its end
TablesBuilt == pc \in {"format", "send", "parse_report", "save", "done"}

\* the summary exists: section 2.3 has run to its end
Formatted == pc \in {"send", "parse_report", "save", "done"}

\* record i carries key k in the field
Carries(i, field, k) ==
    /\ field \in DOMAIN RecordSet[i]
    /\ RecordSet[i][field] = Str(k)

\* record i falls in month k: k is the first seven characters of its date
\* (the whole date when it is shorter)
InMonth(i, k) ==
    /\ "event_date_initiated" \in DOMAIN RecordSet[i]
    /\ LET d == RecordSet[i]["event_date_initiated"]
       IN /\ d.t = "str"
          /\ Len(k) <= Len(d.s)
          /\ \A j \in 1..Len(k) : k[j] = d.s[j]
          /\ Len(k) = 7 \/ Len(k) = Len(d.s)

InputCount(field, k) ==
    Cardinality({i \in 1..Len(RecordSet) : Carries(i, field, k)})

InputKeys(field) ==
    {RecordSet[i][field].s :
        i \in {j \in 1..Len(RecordSet) :
                 field \in DOMAIN RecordSet[j] /\ RecordSet[j][field].t = "str"}}

TableKeys(tbl) == {tbl[i].key : i \in 1..Len(tbl)}

FirstOccurrence(field, k) ==
    CHOOSE i \in 1..Len(RecordSet) :
        /\ Carries(i, field, k)
        /\ \A j \in 1..(i - 1) : ~Carries(j, field, k)

\* the length of record i's description, -1 when it has none
DescLen(i) ==
    IF "product_description" \in DOMAIN RecordSet[i]
          /\ RecordSet[i]["product_description"].t = "str"
    THEN Len(RecordSet[i]["product_description"].s)
    ELSE -1

\* the description as rendered on sample line i: the line without its
\* bullet and its newline
Rendered(i) ==
    LET line == data_summary.samples[i] IN SubSeq(line, 3, Len(line) - 1)

(***************************************************************************)
(* C1: report.md is written only after the whole pipeline has succeeded.   *)
(* A write implies a 200 from the FDA, a 200 from the generation service   *)
(* with a complete choices[0].message.content payload, and no exception;   *)
(* a non-200 FDA status, a failed generation call or an incomplete payload *)
(* leaves the run before or at its abort with no write; an aborted run has *)
(* written nothing.                                                        *)
(***************************************************************************)
C1_WriteOnlyAfterSuccess ==
    /\ writes > 0 =>
          /\ pc = "done"
          /\ error = NoError
          /\ response.status_code = HTTP_OK
          /\ ai_response.status_code = HTTP_OK
          /\ ai_response.shape = "complete"
          /\ file = ai_response.content
    /\ pc = "aborted" => writes = 0 /\ file = None
    /\ response.status_code \notin {0, HTTP_OK} => pc = "aborted"
    /\ error[1] \in {"ConnectionError", "HTTPError"} => pc = "aborted"
    /\ ai_response.shape \in {"no_choices", "empty_choices", "no_content"} =>
          pc \in {"parse_report", "aborted"} /\ writes = 0

C1_Witness ==
    /\ pc = "aborted"
    /\ ai_response.status_code = HTTP_OK
    /\ ai_response.shape = "no_content"
    /\ error = <<"KeyError", "content">>
    /\ writes = 0

(***************************************************************************)
(* C2: when either credential is absent or empty, the run ends in a        *)
(* ValueError with no outbound call made: it never leaves the credential   *)
(* check except by aborting.                                               *)
(***************************************************************************)
C2_MissingCredentialNoCall ==
    (\E name \in DOMAIN environ :
        environ[name] = None \/ environ[name] = Str(<<>>)) =>
          /\ calls = <<>>
          /\ pc \in {"load_env", "aborted"}
          /\ pc = "aborted" => error[1] = "ValueError"

C2_Witness ==
    /\ Truthy(environ["API_KEY"])
    /\ environ["OPENAI_API_KEY"] = Str(<<>>)
    /\ pc = "aborted"
    /\ error = <<"ValueError", "OPENAI_API_KEY">>
    /\ calls = <<>>

(***************************************************************************)
(* C3: at most one GET and at most one POST per run, the GET first; the    *)
(* POST is made only after the GET returned 200; a finished run made       *)
(* exactly one of each; a failed call is not repeated.                     *)
(***************************************************************************)
C3_OneCallEach ==
    /\ calls \in {<<>>, <<"GET">>, <<"GET", "POST">>}
    /\ Len(calls) = 2 => response.status_code = HTTP_OK
    /\ pc = "done" => calls = <<"GET", "POST">>
    /\ pc = "aborted" /\ error[2] = "GET" => calls = <<"GET">>
    /\ pc = "aborted" /\ error[1] = "Exception" => calls = <<"GET">>

C3_Witness ==
    /\ pc = "done"
    /\ calls = <<"GET", "POST">>
    /\ writes = 1

(***************************************************************************)
(* C4: every table holds only keys that occur in its field of the input    *)
(* records, one row per key, and the count of a key is the number of input *)
(* records carrying it; the two tables that are not cut (month, status)    *)
(* hold every key of the input, and so do the two cut tables when the      *)
(* input has at most TopN keys.                                            *)
(***************************************************************************)
ExactCounts(tbl, field) ==
    /\ \A i \in 1..Len(tbl) :
          /\ tbl[i].count = InputCount(field, tbl[i].key)
          /\ tbl[i].count > 0
    /\ \A i, j \in 1..Len(tbl) : tbl[i].key = tbl[j].key => i = j

C4_ExactCounts ==
    TablesBuilt =>
      /\ ExactCounts(root_cause_counts, "root_cause_description")
      /\ ExactCounts(firm_counts, "recalling_firm")
      /\ ExactCounts(status_counts, "recall_status")
      /\ TableKeys(status_counts) = InputKeys("recall_status")
      /\ Cardinality(InputKeys("root_cause_description")) <= TopN =>
            TableKeys(root_cause_counts) = InputKeys("root_cause_description")
      /\ Cardinality(InputKeys("recalling_firm")) <= TopN =>
            TableKeys(firm_counts) = InputKeys("recalling_firm")
      /\ \A i \in 1..Len(monthly_counts) :
            /\ monthly_counts[i].count =
                 Cardinality({r \in 1..Len(RecordSet) : InMonth(r, monthly_counts[i].key)})
            /\ monthly_counts[i].count > 0
      /\ \A i, j \in 1..Len(monthly_counts) :
            monthly_counts[i].key = monthly_counts[j].key => i = j
      /\ \A r \in 1..Len(RecordSet) :
            ("event_date_initiated" \in DOMAIN RecordSet[r]
                /\ RecordSet[r]["event_date_initiated"].t = "str") =>
              \E i \in 1..Len(monthly_counts) : InMonth(r, monthly_counts[i].key)

\* three records, two sharing a root cause and one a record without the key
C4_Witness ==
    /\ pc = "format"
    /\ Len(RecordSet) = 3
    /\ \E i \in 1..3 : "root_cause_description" \notin DOMAIN RecordSet[i]
    /\ root_cause_counts = <<[key |-> Software, count |-> 2]>>
    /\ Len(monthly_counts) = 2
    /\ Len(firm_counts) = 2

(***************************************************************************)
(* C5: the root-cause and firm tables hold at most TopN rows (exactly TopN *)
(* when the input has more keys), in non-increasing count order, and no    *)
(* key left out has a greater count than a key kept.                       *)
(***************************************************************************)
TopTen(tbl, field) ==
    /\ Len(tbl) <= TopN
    /\ Len(tbl) = Min(TopN, Cardinality(InputKeys(field)))
    /\ \A i, j \in 1..Len(tbl) : i < j => tbl[i].count >= tbl[j].count
    /\ \A k \in InputKeys(field) \ TableKeys(tbl) :
          \A i \in 1..Len(tbl) : InputCount(field, k) <= tbl[i].count

C5_TopTen ==
    TablesBuilt =>
      /\ TopTen(root_cause_counts, "root_cause_description")
      /\ TopTen(firm_counts, "recalling_firm")

\* more than TopN firms, and a firm left out
C5_Witness ==
    /\ pc = "format"
    /\ Cardinality(InputKeys("recalling_firm")) > TopN
    /\ Len(firm_counts) = TopN
    /\ firm_counts[1].count > firm_counts[TopN].count
    /\ InputKeys("recalling_firm") \ TableKeys(firm_counts) # {}

(***************************************************************************)
(* C6: an empty RecordSet (a 200 response whose results array is empty)    *)
(* does not fail in aggregation: the run never aborts with a KeyError of   *)
(* section 2.2, and once formatted the summary shows a total of 0 with     *)
(* four empty tables and no sample line.                                   *)
(***************************************************************************)
C6_EmptyRecordSetFormats ==
    (response.status_code = HTTP_OK /\ RecordSet = <<>>) =>
      /\ ~(pc = "aborted" /\ error[1] = "KeyError"
             /\ error[2] \in Range(AggregateCols))
      /\ Formatted =>
            /\ data_summary.total = 0
            /\ data_summary.samples = <<>>
            /\ root_cause_counts = <<>> /\ monthly_counts = <<>>
            /\ firm_counts = <<>> /\ status_counts = <<>>

(***************************************************************************)
(* C7: when root_cause_description, recalling_firm or recall_status is     *)
(* missing from every record of a non-empty RecordSet, the aggregation     *)
(* does not raise for that field: the run goes on to the formatter.        *)
(***************************************************************************)
C7_MissingFieldTolerated ==
    \A field \in {"root_cause_description", "recalling_firm", "recall_status"} :
        (/\ response.status_code = HTTP_OK
         /\ RecordSet # <<>>
         /\ \A i \in 1..Len(RecordSet) : field \notin DOMAIN RecordSet[i]) =>
            ~(pc = "aborted" /\ error = <<"KeyError", field>>)

(***************************************************************************)
(* C8: for each of the first SampleN records, a missing description (the   *)
(* key absent from the record, or present with a null value) is rendered   *)
(* as exactly "N/A".                                                       *)
(***************************************************************************)
C8_MissingRendersNA ==
    Formatted =>
      \A i \in 1..Min(SampleN, Len(RecordSet)) :
          ("product_description" \notin DOMAIN RecordSet[i]
              \/ RecordSet[i]["product_description"] = None) =>
             Rendered(i) = <<78, 47, 65>>

(***************************************************************************)
(* C9: truncation law.  There is one sample line for each of the first     *)
(* SampleN records, in source order; a description of length L is rendered *)
(* unchanged when L <= 200, and as its first 200 characters followed by    *)
(* "..." (203 characters) when L > 200.                                    *)
(***************************************************************************)
C9_TruncationLaw ==
    Formatted =>
      /\ Len(data_summary.samples) <= 5
      /\ Len(data_summary.samples) = Min(5, Len(RecordSet))
      /\ \A i \in 1..Len(data_summary.samples) :
            ("product_description" \in DOMAIN RecordSet[i]
                /\ RecordSet[i]["product_description"].t = "str") =>
              LET d == RecordSet[i]["product_description"].s
                  text == Rendered(i)
              IN IF Len(d) <= 200
                 THEN text = d
                 ELSE /\ Len(text) = 203
                      /\ \A j \in 1..200 : text[j] = d[j]
                      /\ \A j \in 201..203 : text[j] = 46

\* more than SampleN records, a long description among the first SampleN and
\* one of exactly 200 characters
C9_Witness ==
    /\ pc = "send"
    /\ Len(RecordSet) > SampleN
    /\ Len(data_summary.samples) = SampleN
    /\ \E i \in 1..SampleN : DescLen(i) > 200
    /\ \E i \in 1..SampleN : DescLen(i) = 200

(***************************************************************************)
(* C10 as stated: in the three count-ranked tables, keys with equal counts *)
(* appear in the order of their first occurrence in the RecordSet.         *)
(***************************************************************************)
FirstOccurrenceOrder(tbl, field) ==
    \A i, j \in 1..Len(tbl) :
        (i < j /\ tbl[i].count = tbl[j].count) =>
            FirstOccurrence(field, tbl[i].key) < FirstOccurrence(field, tbl[j].key)

C10_TiesInFirstOccurrenceOrder ==
    TablesBuilt =>
      /\ FirstOccurrenceOrder(root_cause_counts, "root_cause_description")
      /\ FirstOccurrenceOrder(firm_counts, "recalling_firm")
      /\ FirstOccurrenceOrder(status_counts, "recall_status")

(***************************************************************************)
(* C10 as amended: the three count-ranked tables are ordered by count      *)
(* alone.  A key with a greater count precedes every key with a smaller    *)
(* one, the status table keeps every key, and the top-TopN cut keeps every *)
(* key whose count is greater than the smallest count kept; nothing ties   *)
(* the order of keys of equal count to their first occurrence.             *)
(***************************************************************************)
OrderedByCountAlone(tbl, field, cut) ==
    /\ \A i, j \in 1..Len(tbl) : tbl[i].count > tbl[j].count => i < j
    /\ \A k \in InputKeys(field) \ TableKeys(tbl) :
          /\ Len(tbl) = cut
          /\ InputCount(field, k) <= tbl[Len(tbl)].count

C10_TiesNotByFirstOccurrence ==
    TablesBuilt =>
      /\ OrderedByCountAlone(root_cause_counts, "root_cause_description", TopN)
      /\ OrderedByCountAlone(firm_counts, "recalling_firm", TopN)
      /\ OrderedByCountAlone(status_counts, "recall_status", Len(status_counts) + 1)

\* a tie across the cut: a root cause left out that occurs in the RecordSet
\* before a kept root cause of the same count
C10_Witness ==
    /\ pc = "format"
    /\ \E d \in InputKeys("root_cause_description") \ TableKeys(root_cause_counts) :
         \E i \in 1..Len(root_cause_counts) :
            /\ root_cause_counts[i].count = InputCount("root_cause_description", d)
            /\ FirstOccurrence("root_cause_description", d)
                 < FirstOccurrence("root_cause_description", root_cause_counts[i].key)

====
